---- MODULE Spec2Model ----
(***************************************************************************)
(* A model of generate_context/main.py: the ignore-aware directory walk,   *)
(* the tree rendering, the per-file content policy, the declaration digest, *)
(* the insertion of the caller's task text and the saving of the document.  *)
(*                                                                         *)
(* Text is a sequence of one-character strings.  The characters are those   *)
(* of Latin-1; a character beyond Latin-1, which a TLA+ string cannot hold, *)
(* is written as a token: the three box-drawing characters of the tree      *)
(* lines are VERT, TEE and DASH, a character U+hhhh is "<U+hhhh>".          *)
(* A path is the sequence of its segments below base_path.  A file's text   *)
(* is what a text-mode read gives (decoded, line ends already "\n").        *)
(* The token estimate (count_tokens / total_tokens), the printed messages   *)
(* and the clipboard copy are side channels that no modelled decision       *)
(* reads; they are not part of the state.                                   *)
(***************************************************************************)
EXTENDS Naturals, Sequences, FiniteSets, TLC

VARIABLES
    \* ---- the file system under base_path ----
    listing,            \* directory -> [dirs, files]: what os.walk lists there
    file_text,          \* file -> its text
    unreadable,         \* files whose open()/read() raises
    \* ---- arguments of dump_repository_structure_and_files ----
    no_nest, include_ignored, filenames, ignore_files, include_tree,
    \* ---- state of one run ----
    pc,                 \* "load", "tree", "list", "walk", "finish", "done"
    patterns,           \* the dict load_gitignore_patterns returned
    todo,               \* directories os.walk has still to yield (a stack)
    visited,            \* directories the current walk has yielded so far
    tree,               \* build_tree_structure's dict, entries in insertion order
    main_gitignore_found, related_repo_roots,
    file_contents,      \* the walk's dict, entries in insertion order
    output,             \* the pieces appended to `output`
    raised,             \* the exception that ended the run, or "none"
    returned,           \* what the caller received: NotReturned or Returned(pieces)
    tests,              \* history: every evaluation of the skip condition
    \* ---- main(): insertion of the task text, saving of the document ----
    users_request, output_file, safe_request, context, mpc,
    runs,               \* how many times main() has been run on this directory
    \* ---- extract_function_defs_and_docstrings ----
    source, result, pending, digest, dpc

runVars == <<pc, patterns, todo, visited, tree, main_gitignore_found,
             related_repo_roots, file_contents, output, raised, returned, tests>>
fsVars == <<listing, file_text, unreadable>>
argVars == <<no_nest, include_ignored, filenames, ignore_files, include_tree>>
mainVars == <<users_request, output_file, safe_request, context, mpc, runs>>
digestVars == <<source, result, pending, digest, dpc>>
vars == <<fsVars, argVars, runVars, mainVars, digestVars>>

-----------------------------------------------------------------------------
(* Bounds of the model. *)

\* longest explicit allow-list (--filename) tried
MaxList == 2
\* number of fragments a task text is put together from
MaxPieces == 3
\* longest module body and class body of a parsed source
MaxBody == 2
\* how many times main() is run on the same directory
MaxRuns == 2

\* line 226: `if i >= 500: break`
TruncateLimit == 500

-----------------------------------------------------------------------------
(* Names. *)

GITIGNORE == <<".", "g", "i", "t", "i", "g", "n", "o", "r", "e">>
A_PY == <<"a", ".", "p", "y">>
B_PY == <<"b", ".", "p", "y">>
C_PY == <<"c", ".", "p", "y">>
D_PY == <<"d", ".", "p", "y">>
H_PY == <<"h", ".", "p", "y">>
N_TXT == <<"n", ".", "t", "x", "t">>
M_TXT == <<"m", ".", "t", "x", "t">>
README == <<"R", "E", "A", "D", "M", "E", ".", "m", "d">>
VENDOR == <<"v", "e", "n", "d", "o", "r">>
LIB == <<"l", "i", "b">>
PKG == <<"p", "k", "g">>
DOCS == <<"d", "o", "c", "s">>
HID == <<".", "h", "i", "d">>
DOTDOT == <<".", ".">>
\* line 301: the default output file's name
CONTEXT_TXT == <<"c", "o", "n", "t", "e", "x", "t", ".", "t", "x", "t">>
\* Path(base_path).name
base_path_name == <<"r", "e", "p", "o">>
\* str(base_path), resolved (line 294)
base_path == <<"/", "r", "e", "p", "o">>

Root == <<>>

-----------------------------------------------------------------------------
(* Strings and paths. *)

Range(s) == {s[i] : i \in 1..Len(s)}

IsPrefix(p, s) == Len(p) <= Len(s) /\ SubSeq(s, 1, Len(p)) = p

\* str.startswith
StartsWith(s, p) == IsPrefix(p, s)

\* str.endswith
EndsWith(s, p) == Len(p) <= Len(s) /\ SubSeq(s, Len(s) - Len(p) + 1, Len(s)) = p

\* chars * n
Repeat(chars, n) ==
    [i \in 1..(Len(chars) * n) |-> chars[((i - 1) % Len(chars)) + 1]]

\* "".join(items)
RECURSIVE Flatten(_)
Flatten(ss) == IF ss = <<>> THEN <<>> ELSE Head(ss) \o Flatten(Tail(ss))

\* sep.join(items)
RECURSIVE Join(_, _)
Join(items, sep) ==
    IF items = <<>> THEN <<>>
    ELSE IF Len(items) = 1 THEN items[1]
    ELSE items[1] \o sep \o Join(Tail(items), sep)

\* the box-drawing characters U+2502, U+251C and U+2500
VERT == "<U+2502>"
TEE == "<U+251C>"
DASH == "<U+2500>"

\* The characters str.strip() removes: those c with c.isspace().  Of Latin-1
\* these are \t \n \v \f \r, \x1c to \x1f, the space, \x85 and \xa0; beyond
\* Latin-1, U+1680, U+2000 to U+200A, U+2028, U+2029, U+202F, U+205F, U+3000.
VT == ""
FS == ""
GS == ""
RS == ""
US == ""
NEL == ""
NBSP == " "
WideSpaces ==
    {"<U+1680>", "<U+2000>", "<U+2001>", "<U+2002>", "<U+2003>", "<U+2004>",
     "<U+2005>", "<U+2006>", "<U+2007>", "<U+2008>", "<U+2009>", "<U+200A>",
     "<U+2028>", "<U+2029>", "<U+202F>", "<U+205F>", "<U+3000>"}
Whitespace ==
    {"\t", "\n", VT, "\f", "\r", FS, GS, RS, US, " ", NEL, NBSP} \cup WideSpaces

RECURSIVE LStrip(_)
LStrip(s) == IF s # <<>> /\ Head(s) \in Whitespace THEN LStrip(Tail(s)) ELSE s

RECURSIVE RStrip(_)
RStrip(s) ==
    IF s # <<>> /\ s[Len(s)] \in Whitespace
    THEN RStrip(SubSeq(s, 1, Len(s) - 1)) ELSE s

\* str.strip
Strip(s) == RStrip(LStrip(s))

\* the grave accent (96)
GRAVE == <<"`", "'">>[1]

\* the characters U+0001 to U+00FF, in order
Latin1 ==
    <<"", "", "", "", "", "", "", "", "\t", "\n", "", "\f", "\r", "", "",
      "", "", "", "", "", "", "", "", "", "", "", "", "", "", "", "",
      " ", "!", "\"", "#", "$", "%", "&", "'", "(", ")", "*", "+", ",", "-", ".",
      "/", "0", "1", "2", "3", "4", "5", "6", "7", "8", "9", ":", ";", "<", "=", ">",
      "?", "@", "A", "B", "C", "D", "E", "F", "G", "H", "I", "J", "K", "L", "M", "N",
      "O", "P", "Q", "R", "S", "T", "U", "V", "W", "X", "Y", "Z", "[", "\\", "]",
      "^", "_", GRAVE, "a", "b", "c", "d", "e", "f", "g", "h", "i", "j", "k", "l",
      "m", "n", "o", "p", "q", "r", "s", "t", "u", "v", "w", "x", "y", "z", "{", "|",
      "}", "~", "", "", "", "", "", "", "", "", "", "", "", "", "", "",
      "", "", "", "", "", "", "", "", "", "", "", "", "", "", "", "",
      "", "", "", " ", "¡", "¢", "£", "¤", "¥", "¦", "§", "¨", "©", "ª", "«", "¬",
      "­", "®", "¯", "°", "±", "²", "³", "´", "µ", "¶", "·", "¸", "¹", "º", "»", "¼",
      "½", "¾", "¿", "À", "Á", "Â", "Ã", "Ä", "Å", "Æ", "Ç", "È", "É", "Ê", "Ë", "Ì",
      "Í", "Î", "Ï", "Ð", "Ñ", "Ò", "Ó", "Ô", "Õ", "Ö", "×", "Ø", "Ù", "Ú", "Û", "Ü",
      "Ý", "Þ", "ß", "à", "á", "â", "ã", "ä", "å", "æ", "ç", "è", "é", "ê", "ë", "ì",
      "í", "î", "ï", "ð", "ñ", "ò", "ó", "ô", "õ", "ö", "÷", "ø", "ù", "ú", "û", "ü",
      "ý", "þ", "ÿ">>

\* the code points of the characters written as tokens
Wide ==
    (VERT :> 9474) @@ (TEE :> 9500) @@ (DASH :> 9472)
    @@ ("<U+1680>" :> 5760) @@ ("<U+2000>" :> 8192) @@ ("<U+2001>" :> 8193)
    @@ ("<U+2002>" :> 8194) @@ ("<U+2003>" :> 8195) @@ ("<U+2004>" :> 8196)
    @@ ("<U+2005>" :> 8197) @@ ("<U+2006>" :> 8198) @@ ("<U+2007>" :> 8199)
    @@ ("<U+2008>" :> 8200) @@ ("<U+2009>" :> 8201) @@ ("<U+200A>" :> 8202)
    @@ ("<U+2028>" :> 8232) @@ ("<U+2029>" :> 8233) @@ ("<U+202F>" :> 8239)
    @@ ("<U+205F>" :> 8287) @@ ("<U+3000>" :> 12288)

\* ord(c)
CodePoint(c) ==
    IF c \in DOMAIN Wide THEN Wide[c]
    ELSE CHOOSE i \in 1..Len(Latin1) : Latin1[i] = c

\* str.find(c, from, to): the least index in from..to-1 that holds c, 0 for none
FindChar(s, c, from, to) ==
    LET hits == {i \in from..(to - 1) : s[i] = c}
    IN  IF hits = {} THEN 0 ELSE CHOOSE i \in hits : \A j \in hits : i <= j

\* fnmatch.translate at a "[": `rest` is the pattern after the bracket.  The
\* index in `rest` of the "]" that closes the class, 0 when none does ("[" is
\* then a literal): a "!" and then a "]" right after the bracket do not close.
ClassEnd(rest) ==
    LET n == Len(rest)
        j1 == IF 1 <= n /\ rest[1] = "!" THEN 2 ELSE 1
        j2 == IF j1 <= n /\ rest[j1] = "]" THEN j1 + 1 ELSE j1
    IN  FindChar(rest, "]", j2, n + 1)

RECURSIVE ClassChunks(_, _, _, _)
\* fnmatch.translate: the class text rest[1..j-1] cut at the hyphens that make
\* ranges; a chunk starts at s, the search for "-" starts at k; a hyphen right
\* before the closing bracket stays with its chunk
ClassChunks(rest, s, k, j) ==
    LET h == FindChar(rest, "-", k, j)
    IN  IF h = 0 THEN <<SubSeq(rest, s, j - 1)>>
        ELSE IF h = j - 1 THEN <<SubSeq(rest, s, h)>>
        ELSE <<SubSeq(rest, s, h - 1)>> \o ClassChunks(rest, h + 1, h + 3, j)

RECURSIVE RemoveEmptyRanges(_, _)
\* fnmatch.translate, "Remove empty ranges": from the last pair of chunks to
\* the first, a range whose low end is above its high end loses both ends
RemoveEmptyRanges(chunks, k) ==
    IF k < 2 THEN chunks
    ELSE LET lo == chunks[k - 1]
             hi == chunks[k]
         IN  IF CodePoint(lo[Len(lo)]) > CodePoint(hi[1])
             THEN RemoveEmptyRanges(
                      SubSeq(chunks, 1, k - 2)
                      \o <<SubSeq(lo, 1, Len(lo) - 1) \o Tail(hi)>>
                      \o SubSeq(chunks, k + 1, Len(chunks)),
                      k - 1)
             ELSE RemoveEmptyRanges(chunks, k - 1)

\* c is a character of a chunk, or lies in the range two chunks are joined by
InChunks(c, chunks) ==
    \/ \E t \in 1..Len(chunks) : c \in Range(chunks[t])
    \/ \E t \in 1..(Len(chunks) - 1) :
          /\ chunks[t] # <<>> /\ chunks[t + 1] # <<>>
          /\ CodePoint(chunks[t][Len(chunks[t])]) <= CodePoint(c)
          /\ CodePoint(c) <= CodePoint(chunks[t + 1][1])

\* the class rest[1..j-1] matches the character c: an empty class matches
\* nothing, "!" alone everything, a leading "!" negates
ClassMatches(c, rest, j) ==
    LET first == ClassChunks(rest, 1, IF rest[1] = "!" THEN 3 ELSE 2, j)
        chunks == RemoveEmptyRanges(first, Len(first))
    IN  IF chunks = << <<>> >> THEN FALSE
        ELSE IF chunks = << <<"!">> >> THEN TRUE
        ELSE IF chunks[1] # <<>> /\ chunks[1][1] = "!"
        THEN ~InChunks(c, <<Tail(chunks[1])>> \o Tail(chunks))
        ELSE InChunks(c, chunks)

\* fnmatch.fnmatch(name, pat) on POSIX (normcase is the identity): `*` matches
\* any run of characters, `/` included, `?` any one character, `[seq]` and
\* `[!seq]` one character of a class, anything else itself.
RECURSIVE FnMatch(_, _)
FnMatch(name, pat) ==
    IF pat = <<>> THEN name = <<>>
    ELSE IF Head(pat) = "*"
         THEN FnMatch(name, Tail(pat)) \/ (name # <<>> /\ FnMatch(Tail(name), pat))
    ELSE IF Head(pat) = "?"
         THEN name # <<>> /\ FnMatch(Tail(name), Tail(pat))
    ELSE IF Head(pat) = "[" /\ ClassEnd(Tail(pat)) # 0
         THEN LET rest == Tail(pat)
                  j == ClassEnd(rest)
              IN  /\ name # <<>>
                  /\ ClassMatches(Head(name), rest, j)
                  /\ FnMatch(Tail(name), SubSeq(rest, j + 1, Len(rest)))
    ELSE name # <<>> /\ Head(name) = Head(pat) /\ FnMatch(Tail(name), Tail(pat))

\* str(path): the segments joined by "/"
PathStr(parts) == Join(parts, <<"/">>)

\* str(Path(base_path) / relative)
FilePathStr(parts) == base_path \o <<"/">> \o PathStr(parts)

\* PurePath.suffix: from the last dot of the name, unless the name starts or
\* ends with it
Suffix(name) ==
    LET dots == {i \in 1..Len(name) : name[i] = "."}
    IN  IF dots = {} THEN <<>>
        ELSE LET i == CHOOSE d \in dots : \A e \in dots : e <= d
             IN  IF 1 < i /\ i < Len(name) THEN SubSeq(name, i, Len(name)) ELSE <<>>

DOT_PY == <<".", "p", "y">>

FileName(path) == path[Len(path)]
DirOf(path) == SubSeq(path, 1, Len(path) - 1)

\* PurePath.is_relative_to / relative_to succeeding
IsRelativeTo(path, dir) == IsPrefix(dir, path)
\* path.relative_to(dir)
RelativeTo(path, dir) == SubSeq(path, Len(dir) + 1, Len(path))

-----------------------------------------------------------------------------
(* Texts.  A text is a sequence of segments, each a run of characters        *)
(* repeated a number of times: the characters of the text are those of its   *)
(* segments one after the other.  A segment is never empty.                  *)

Seg(chars, times) == [chars |-> chars, times |-> times]

\* the text that holds `chars`
Lit(chars) == IF chars = <<>> THEN <<>> ELSE <<Seg(chars, 1)>>

\* the characters of a text: what file.read() returns
RECURSIVE Chars(_)
Chars(text) ==
    IF text = <<>> THEN <<>>
    ELSE Repeat(Head(text).chars, Head(text).times) \o Chars(Tail(text))

\* chars.count("\n")
Newlines(chars) == Cardinality({i \in 1..Len(chars) : chars[i] = "\n"})

\* the index of the r-th "\n" of chars
NewlineAt(chars, r) ==
    CHOOSE i \in 1..Len(chars) :
        chars[i] = "\n" /\ Newlines(SubSeq(chars, 1, i)) = r

\* The first n lines of a text, joined: the text up to its n-th "\n", the
\* whole text when it has fewer.  This is what lines 224-229 collect.
RECURSIVE TakeLines(_, _)
TakeLines(text, n) ==
    IF text = <<>> \/ n = 0 THEN <<>>
    ELSE LET s == Head(text)
             per == Newlines(s.chars)
         IN  IF per * s.times < n
             THEN <<s>> \o TakeLines(Tail(text), n - per * s.times)
             ELSE LET q == (n - 1) \div per
                      cut == SubSeq(s.chars, 1, NewlineAt(s.chars, n - q * per))
                  IN  IF cut = s.chars THEN <<Seg(s.chars, q + 1)>>
                      ELSE (IF q = 0 THEN <<>> ELSE <<Seg(s.chars, q)>>)
                           \o <<Seg(cut, 1)>>

\* the lines a file object yields when iterated: each ends with its "\n",
\* but for a last line without one
RECURSIVE SplitLines(_)
SplitLines(chars) ==
    IF chars = <<>> THEN <<>>
    ELSE LET i == FindChar(chars, "\n", 1, Len(chars) + 1)
         IN  IF i = 0 THEN <<chars>>
             ELSE <<SubSeq(chars, 1, i)>> \o SplitLines(SubSeq(chars, i + 1, Len(chars)))

-----------------------------------------------------------------------------
(* The file systems and configurations a run is started on. *)

\* "# c\n", " \n", "*.txt\n": a comment, a blank line and one pattern
RulesTxt == Lit(<<"#", " ", "c", "\n", " ", "\n", "*", ".", "t", "x", "t", "\n">>)
\* "vendor/\n": a directory pattern
RulesVendorDir == Lit(<<"v", "e", "n", "d", "o", "r", "/", "\n">>)
\* "*.py\n"
RulesPy == Lit(<<"*", ".", "p", "y", "\n">>)
\* "*\n"
RulesAll == Lit(<<"*", "\n">>)
\* "\f[mn].tx[!a-s]\n": a pattern with two character classes after a form feed
RulesClass == Lit(<<"\f", "[", "m", "n", "]", ".", "t", "x", "[", "!", "a", "-", "s",
      "]", "\n">>)
\* an empty rule file
RulesNone == << >>
\* no rule file in the directory
Absent == <<Seg(<<"<absent>">>, 0)>>

\* a.py
TextA == Lit(<<"d", "e", "f", " ", "f", "(", "x", ",", " ", "y", ")", ":", " ", "p",
      "a", "s", "s", "\n">>)
\* b.py
TextB == Lit(<<"c", "l", "a", "s", "s", " ", "C", "(", "B", "a", "s", "e", ")", ":",
      "\n", " ", " ", " ", " ", "\"", "\"", "\"", "d", "o", "c", "\"", "\"", "\"",
      "\n", " ", " ", " ", " ", "d", "e", "f", " ", "g", "(", "s", "e", "l", "f",
      ")", ":", " ", "p", "a", "s", "s", "\n">>)
\* c.py: a text that does not parse
TextC == Lit(<<"x", " ", "=", " ", "=", " ", "1", "\n">>)
\* d.py: "x = " + "-" * 3000 + "1\n", an expression nested deeper than the
\* interpreter's recursion limit allows ast.parse to build
TextD == <<Seg(<<"x", " ", "=", " ">>, 1), Seg(<<"-">>, 3000), Seg(<<"1", "\n">>, 1)>>
\* a text that holds the empty task marker
TextMarker == Lit(<<"s", "e", "e", "\n", "<", "t", "a", "s", "k", ">", "\n", "\n",
      "<", "/", "t", "a", "s", "k", ">", "\n", "e", "n", "d", "\n">>)
\* n lines "l\n"
TextLines(n) == <<Seg(<<"l", "\n">>, n)>>

WithRules(rules, files) == IF rules = Absent THEN files ELSE <<GITIGNORE>> \o files

\* root/{a.py, n.txt, vendor/{b.py, d.py, pkg/c.py}, lib/m.txt,
\*       .hid/{.gitignore, h.py}, docs/}
FullListing(rootRules, vendorRules, libRules, libFirst) ==
    (Root :> [dirs |-> IF libFirst THEN <<LIB, VENDOR, HID, DOCS>>
                       ELSE <<VENDOR, LIB, HID, DOCS>>,
              files |-> WithRules(rootRules, <<A_PY, N_TXT>>)])
    @@ (<<VENDOR>> :> [dirs |-> <<PKG>>, files |-> WithRules(vendorRules, <<B_PY, D_PY>>)])
    @@ (<<VENDOR, PKG>> :> [dirs |-> <<>>, files |-> <<C_PY>>])
    @@ (<<LIB>> :> [dirs |-> <<>>, files |-> WithRules(libRules, <<M_TXT>>)])
    @@ (<<HID>> :> [dirs |-> <<>>, files |-> <<GITIGNORE, H_PY>>])
    @@ (<<DOCS>> :> [dirs |-> <<>>, files |-> <<>>])

\* root/{a.py, vendor/{.gitignore, b.py}}, the root with or without a rule
\* file and with the files `more`
ScenarioListing(rootRules, more) ==
    (Root :> [dirs |-> <<VENDOR>>, files |-> WithRules(rootRules, <<A_PY>> \o more)])
    @@ (<<VENDOR>> :> [dirs |-> <<>>, files |-> <<GITIGNORE, B_PY>>])

\* the rule files' texts, by directory
RuleTexts(rootRules, vendorRules, libRules, hid) ==
    LET all == {<<Root, rootRules>>, <<<<VENDOR>>, vendorRules>>,
                <<<<LIB>>, libRules>>, <<<<HID>>, hid>>}
        have == {p \in all : p[2] # Absent}
    IN  [d \in {p[1] : p \in have} |-> (CHOOSE p \in have : p[1] = d)[2]]

AllDirs == DOMAIN listing
\* every file's path
AllFiles == UNION {{d \o <<n>> : n \in Range(listing[d].files)} : d \in AllDirs}
HasGitignore(d) == GITIGNORE \in Range(listing[d].files)

\* the texts of the files listed: the rule files', n.txt's as given
FileTexts(rules, n_txt) ==
    [f \in AllFiles |->
        IF FileName(f) = GITIGNORE THEN rules[DirOf(f)]
        ELSE IF FileName(f) = A_PY THEN TextA
        ELSE IF FileName(f) = B_PY THEN TextB
        ELSE IF FileName(f) = C_PY THEN TextC
        ELSE IF FileName(f) = D_PY THEN TextD
        ELSE IF FileName(f) = N_TXT THEN n_txt
        ELSE IF FileName(f) = M_TXT THEN TextLines(TruncateLimit)
        ELSE <<>>]

\* An explicit --filename entry: the name given, whether base_path / name
\* exists, and whether its resolved path stays under base_path.
EntryA == [name |-> <<A_PY>>, exists |-> TRUE, inside |-> TRUE]
EntryB == [name |-> <<VENDOR, B_PY>>, exists |-> TRUE, inside |-> TRUE]
\* a file beneath a directory whose name starts with "."
EntryHidden == [name |-> <<HID, H_PY>>, exists |-> TRUE, inside |-> TRUE]
EntryMissing == [name |-> <<README>>, exists |-> FALSE, inside |-> TRUE]
EntryOutside == [name |-> <<DOTDOT, A_PY>>, exists |-> TRUE, inside |-> FALSE]
Entries == {EntryA, EntryB, EntryHidden, EntryMissing, EntryOutside}

SeqsUpTo(S, n) == UNION {[1..k -> S] : k \in 0..n}

-----------------------------------------------------------------------------
(* load_gitignore_patterns and is_ignored. *)

RECURSIVE os_walk(_, _)
RECURSIVE WalkEach(_, _, _)
\* os.walk(top), top-down: a directory, then each listed subdirectory in
\* listing order; `prune` is the caller's `dirs[:] = [d ... not d.startswith(".")]`
os_walk(top, prune) ==
    LET ds == listing[top].dirs
        kept == IF prune THEN SelectSeq(ds, LAMBDA n : ~StartsWith(n, <<".">>)) ELSE ds
    IN  <<top>> \o WalkEach(top, kept, prune)
WalkEach(top, names, prune) ==
    IF names = <<>> THEN <<>>
    ELSE os_walk(top \o <<Head(names)>>, prune) \o WalkEach(top, Tail(names), prune)

\* line 29: the lines of the rule file in directory d
gitignore_lines(d) == SplitLines(Chars(file_text[d \o <<GITIGNORE>>]))

\* lines 29-32: strip each line, keep the non-empty ones that are no comment
KeptLines(lines) ==
    SelectSeq([i \in 1..Len(lines) |-> Strip(lines[i])],
              LAMBDA l : l # <<>> /\ ~StartsWith(l, <<"#">>))

\* load_gitignore_patterns(base_path): every directory of the whole tree
\* (hidden ones too: this walk prunes nothing) that holds a .gitignore
load_gitignore_patterns(base) ==
    [d \in {x \in Range(os_walk(base, FALSE)) : HasGitignore(x)}
        |-> KeptLines(gitignore_lines(d))]

\* the open() of line 27 raises for the first unreadable rule file
LoadRaises(base) ==
    \E d \in Range(os_walk(base, FALSE)) :
        HasGitignore(d) /\ (d \o <<GITIGNORE>>) \in unreadable

\* lines 46-51, one pattern against the path relative to the rule file's directory
PatternHits(rel, pattern) ==
    \/ FnMatch(PathStr(rel), pattern)
    \/ (EndsWith(pattern, <<"/">>) /\ FnMatch(PathStr(rel), pattern \o <<"*">>))

\* is_ignored(path, patterns)
is_ignored(path, pats) ==
    \E d \in DOMAIN pats :
        /\ IsRelativeTo(path, d)
        /\ \E i \in 1..Len(pats[d]) : PatternHits(RelativeTo(path, d), pats[d][i])

-----------------------------------------------------------------------------
(* extract_function_defs_and_docstrings.                                   *)
(* A parsed source is its ast: a node is a record of the fields the code   *)
(* reads.  `doc` is ast.get_docstring(node), empty when it returns None or  *)
(* "".  `args` is [arg.arg for arg in node.args.args]; `bases`, `targets`   *)
(* and `annotation` are the ast.unparse(...).strip() texts.                 *)

Node(type, name, args, bases, doc, body, targets, annotation, value) ==
    [type |-> type, name |-> name, args |-> args, bases |-> bases, doc |-> doc,
     body |-> body, targets |-> targets, annotation |-> annotation, value |-> value]

FunctionDef(name, args, doc, body) ==
    Node("FunctionDef", name, args, <<>>, doc, body, <<>>, <<>>, FALSE)
AsyncFunctionDef(name, args, doc) ==
    Node("AsyncFunctionDef", name, args, <<>>, doc, <<>>, <<>>, <<>>, FALSE)
ClassDef(name, bases, doc, body) ==
    Node("ClassDef", name, <<>>, bases, doc, body, <<>>, <<>>, FALSE)
Assign(targets) == Node("Assign", <<>>, <<>>, <<>>, <<>>, <<>>, targets, <<>>, TRUE)
AnnAssign(target, annotation, value) ==
    Node("AnnAssign", <<>>, <<>>, <<>>, <<>>, <<>>, <<target>>, annotation, value)
Pass == Node("Pass", <<>>, <<>>, <<>>, <<>>, <<>>, <<>>, <<>>, FALSE)

\* What ast.parse (line 71) does with a source text: it returns the tree with
\* `body`, or it raises `raises` with the message `error`: SyntaxError, or an
\* exception that is no SyntaxError (RecursionError, MemoryError).
Parsed(body) == [parses |-> TRUE, body |-> body, raises |-> "none", error |-> <<>>]
Unparsable(error) ==
    [parses |-> FALSE, body |-> <<>>, raises |-> "SyntaxError", error |-> error]
ParseRaises(exception, error) ==
    [parses |-> FALSE, body |-> <<>>, raises |-> exception, error |-> error]

\* lines 70-71 and 112: the exception leaves the function
DigestRaises(src) == src.raises \notin {"none", "SyntaxError"}

\* get_function_signature(node)
get_function_signature(node) ==
    <<"d", "e", "f", " ">> \o node.name \o <<"(">> \o Join(node.args, <<",", " ">>) \o <<")", ":">>

\* One appended element of `result`: its indentation level and the text after it.
\* `of` tells a declaration's line from a docstring's.
Line(indent, text, of) == [indent |-> indent, text |-> text, of |-> of]

DocLines(node, indent) ==
    IF node.doc # <<>>
    THEN <<Line(indent + 1, <<"\"", "\"", "\"">> \o node.doc \o <<"\"", "\"", "\"">>, "doc")>>
    ELSE <<>>

\* lines 94-106: the reconstructed assignment line
AssignText(node) ==
    IF node.type = "Assign" THEN Join(node.targets, <<",", " ">>) \o <<" ", "=", " ", ".",
      ".", ".">>
    ELSE IF node.value THEN node.targets[1] \o <<":", " ">> \o node.annotation \o <<" ",
      "=", " ", ".", ".", ".">>
    ELSE node.targets[1] \o <<":", " ">> \o node.annotation

\* line 107: result.append("    " * (indent + 1) + line)
AssignIndent(indent) == indent + 1

RECURSIVE process_node(_, _)
RECURSIVE ProcessBody(_, _)
\* process_node(node, indent), lines 73-107: what it appends to `result`
process_node(node, indent) ==
    IF node.type = "FunctionDef"
    THEN <<Line(indent, get_function_signature(node), "decl")>> \o DocLines(node, indent)
    ELSE IF node.type = "ClassDef"
    THEN <<Line(indent,
                <<"c", "l", "a", "s", "s", " ">> \o node.name
                \o (IF node.bases # <<>>
                    THEN <<"(">> \o Join(node.bases, <<",", " ">>) \o <<")">> ELSE <<>>)
                \o <<":">>, "decl")>>
         \o DocLines(node, indent)
         \o ProcessBody(node.body, indent + 1)
    ELSE IF node.type \in {"Assign", "AnnAssign"}
    THEN <<Line(AssignIndent(indent), AssignText(node), "decl")>>
    ELSE <<>>
\* lines 89-90: for child in node.body: process_node(child, indent + 1)
ProcessBody(body, indent) ==
    IF body = <<>> THEN <<>>
    ELSE process_node(Head(body), indent) \o ProcessBody(Tail(body), indent)

\* the text of one element of `result`: "    " * indent + text
Render(line) == Repeat(<<" ", " ", " ", " ">>, line.indent) \o line.text

\* lines 112-113
SyntaxErrorLine(src) ==
    Line(0, <<"#", " ", "S", "y", "n", "t", "a", "x", "E", "r", "r", "o", "r", " ",
      "w", "h", "i", "l", "e", " ", "p", "a", "r", "s", "i", "n", "g", ":", " ">> \o src.error, "error")

\* the elements of `result` when the function returns
DigestLines(src) ==
    IF src.parses THEN ProcessBody(src.body, 0) ELSE <<SyntaxErrorLine(src)>>

\* extract_function_defs_and_docstrings(file_content) when it returns:
\* "\n".join(result)
extract_function_defs_and_docstrings(src) ==
    Join([i \in 1..Len(DigestLines(src)) |-> Render(DigestLines(src)[i])], <<"\n">>)

-----------------------------------------------------------------------------
(* The sources of the files. *)

\* a.py: `def f(x, y): pass`
SourceA == Parsed(<<FunctionDef(<<"f">>, <<<<"x">>, <<"y">>>>, <<>>, <<Pass>>)>>)
\* b.py: `class C(Base):` / `    """doc"""` / `    def g(self): pass`
SourceB ==
    Parsed(<<ClassDef(<<"C">>, <<<<"B", "a", "s", "e">>>>, <<"d", "o", "c">>,
                      <<FunctionDef(<<"g">>, <<<<"s", "e", "l", "f">>>>, <<>>, <<Pass>>)>>)>>)
\* c.py: str(e) of the SyntaxError
SourceC == Unparsable(<<"i", "n", "v", "a", "l", "i", "d", " ", "s", "y", "n", "t",
      "a", "x", " ", "(", "<", "u", "n", "k", "n", "o", "w", "n", ">", ",", " ", "l",
      "i", "n", "e", " ", "1", ")">>)
\* d.py: str(e) of the RecursionError
SourceD ==
    ParseRaises("RecursionError",
                <<"m", "a", "x", "i", "m", "u", "m", " ", "r", "e", "c", "u", "r",
      "s", "i", "o", "n", " ", "d", "e", "p", "t", "h", " ", "e", "x", "c", "e", "e",
      "d", "e", "d", " ", "d", "u", "r", "i", "n", "g", " ", "a", "s", "t", " ", "c",
      "o", "n", "s", "t", "r", "u", "c", "t", "i", "o", "n">>)

\* ast.parse(text) for the texts of the model's files; an empty text parses
\* to an empty module
ast_parse(text) ==
    IF text = TextA THEN SourceA
    ELSE IF text = TextB THEN SourceB
    ELSE IF text = TextC THEN SourceC
    ELSE IF text = TextD THEN SourceD
    ELSE Parsed(<<>>)

-----------------------------------------------------------------------------
(* What a run appends and returns. *)

\* The content of a file block: the file's text or its first lines ("raw"), a
\* digest ("digest") or the placeholder "Error reading <path>: <message>"
\* ("error"); "literal" is the fixed text of another piece of `output`.
Content(kind, text) == [kind |-> kind, text |-> text]
NoContent == Content("none", <<>>)

\* what the caller holds: nothing until the function returns its text
NotReturned == [given |-> FALSE, text |-> <<>>]
Returned(text) == [given |-> TRUE, text |-> text]

\* one element of `output`
Piece(k, path, indent, content) ==
    [k |-> k, path |-> path, indent |-> indent, content |-> content]
\* a fixed element of `output` and its text
Fixed(k, chars) == Piece(k, <<>>, 0, Content("literal", Lit(chars)))

\* the fixed elements: lines 167, 173, 175, 177, 240, 241, 242
PROMPT == 
    <<"<", "c", "o", "n", "t", "e", "x", "t", ">", "\n", "Y", "o", "u", " ",
      "a", "r", "e", " ", "a", "n", " ", "e", "x", "p", "e", "r", "t", " ", "p", "r",
      "o", "g", "r", "a", "m", "m", "i", "n", "g", " ", "A", "I", " ", "a", "s", "s",
      "i", "s", "t", "a", "n", "t", " ", "w", "h", "o", " ", "p", "r", "i", "o", "r",
      "i", "t", "i", "z", "e", "s", " ", "m", "i", "n", "i", "m", "a", "l", "i", "s",
      "t", ",", " ", "e", "f", "f", "i", "c", "i", "e", "n", "t", " ", "c", "o", "d",
      "e", ".", " ", "Y", "o", "u", " ", "p", "l", "a", "n", " ", "b", "e", "f", "o",
      "r", "e", " ", "c", "o", "d", "i", "n", "g", ",", " ", "w", "r", "i", "t", "e",
      " ", "i", "d", "i", "o", "m", "a", "t", "i", "c", " ", "s", "o", "l", "u", "t",
      "i", "o", "n", "s", ",", " ", "a", "n", "d", " ", "a", "c", "c", "e", "p", "t",
      " ", "u", "s", "e", "r", " ", "p", "r", "e", "f", "e", "r", "e", "n", "c", "e",
      "s", " ", "e", "v", "e", "n", " ", "i", "f", " ", "s", "u", "b", "o", "p", "t",
      "i", "m", "a", "l", ".", "\n", "<", "/", "c", "o", "n", "t", "e", "x", "t",
      ">", "\n", "\n", "<", "f", "o", "r", "m", "a", "t", "_", "r", "u", "l", "e",
      "s", ">", "\n", "-", " ", "K", "e", "e", "p", " ", "r", "e", "s", "p", "o",
      "n", "s", "e", "s", " ", "b", "r", "i", "e", "f", " ", "b", "u", "t", " ", "c",
      "o", "m", "p", "l", "e", "t", "e", "\n", "-", " ", "Y", "o", "u", " ", "o",
      "n", "l", "y", " ", "o", "u", "t", "p", "u", "t", " ", "f", "u", "l", "l", " ",
      "c", "o", "d", "e", " ", "f", "i", "l", "e", ",", " ", "y", "o", "u", " ", "n",
      "e", "v", "e", "r", " ", "c", "u", "t", " ", "o", "u", "t", "p", "u", "t",
      "\n", "<", "/", "f", "o", "r", "m", "a", "t", "_", "r", "u", "l", "e", "s",
      ">", "\n", "\n", "<", "i", "n", "p", "u", "t", ">">>
OutPrompt == Fixed("PROMPT", PROMPT)
OutStructure == Fixed("<repository_structure>", <<"\n", "<", "r", "e", "p", "o", "s",
      "i", "t", "o", "r", "y", "_", "s", "t", "r", "u", "c", "t", "u", "r", "e", ">">>)
OutStructureEnd ==
    Fixed("</repository_structure>", <<"\n", "<", "/", "r", "e", "p", "o", "s", "i",
      "t", "o", "r", "y", "_", "s", "t", "r", "u", "c", "t", "u", "r", "e", ">",
      "\n", "\n", "<", "f", "i", "l", "e", "s", "_", "c", "o", "n", "t", "e", "n",
      "t", ">">>)
OutFiles == Fixed("<files_content>", <<"\n", "<", "f", "i", "l", "e", "s", "_", "c",
      "o", "n", "t", "e", "n", "t", ">">>)
OutFilesEnd == Fixed("</files_content>", <<"\n", "<", "/", "f", "i", "l", "e", "s",
      "_", "c", "o", "n", "t", "e", "n", "t", ">">>)
OutInputEnd == Fixed("</input>", <<"\n", "<", "/", "i", "n", "p", "u", "t", ">">>)
OutTask == Fixed("<task>", <<"\n", "<", "t", "a", "s", "k", ">", "\n", "\n", "<",
      "/", "t", "a", "s", "k", ">">>)

\* f"\nFile: {file_path}\n{content}"
FileBlock(path, content) == Piece("File", path, 0, content)

\* file.read(): the whole text
ReadAll(path) == Content("raw", file_text[path])

\* a variant that stops one line late (`if i > 500`)
ReadTruncatedOffByOne(path) == Content("raw", TakeLines(file_text[path], TruncateLimit + 1))
\* lines 224-229: enumerate the lines, stop at the first index i >= 500
ReadTruncated(path) == Content("raw", TakeLines(file_text[path], TruncateLimit))

\* str(e) of the exception open() raises for an unreadable file; a permission
\* failure stands for every failure of open() or read() (decoding errors, a
\* vanished file)
PermissionDenied(path) ==
    <<"[", "E", "r", "r", "n", "o", " ", "1", "3", "]", " ", "P", "e", "r", "m", "i",
      "s", "s", "i", "o", "n", " ", "d", "e", "n", "i", "e", "d", ":", " ", "'">> \o FilePathStr(path) \o <<"'">>

\* line 234: f"Error reading {file_path}: {e}"
ReadError(path, message) ==
    Content("error", Lit(<<"E", "r", "r", "o", "r", " ", "r", "e", "a", "d", "i",
      "n", "g", " ">> \o FilePathStr(path) \o <<":", " ">> \o message))

-----------------------------------------------------------------------------
(* build_tree_structure and format_tree. *)

\* An entry of the nested dict: the chain of keys that leads to it, and whether
\* its value is None (a leaf) or a dict.
TreeEntry(path, leaf) == [path |-> path, leaf |-> leaf]

HasKey(t, path) == \E i \in 1..Len(t) : t[i].path = path

\* lines 135-137: current = current.setdefault(part, {}) along parts[:-1]
RECURSIVE SetDefaults(_, _, _)
SetDefaults(t, parts, k) ==
    IF k > Len(parts) - 1 THEN t
    ELSE LET key == SubSeq(parts, 1, k)
         IN  SetDefaults(IF HasKey(t, key) THEN t ELSE Append(t, TreeEntry(key, FALSE)),
                         parts, k + 1)

\* lines 133-138
TreeInsert(t, file_path) ==
    LET parts == <<base_path_name>> \o file_path
        withDirs == SetDefaults(t, parts, 1)
    IN  IF HasKey(withDirs, parts) THEN withDirs
        ELSE Append(withDirs, TreeEntry(parts, TRUE))

\* a variant that forgets the hidden-name test in the tree walk
tree_skip_conditions_shows_hidden(file_name, file_path) ==
    \/ (~include_ignored /\ is_ignored(file_path, patterns))
    \/ file_name \in ignore_files
\* lines 127-130
tree_skip_conditions(file_name, file_path) ==
    \/ (~include_ignored
        /\ (StartsWith(file_name, <<".">>) \/ is_ignored(file_path, patterns)))
    \/ file_name \in ignore_files

\* a record of one evaluation of the skip condition
Test(walk, path, seen, skip) ==
    [walk |-> walk, path |-> path, known |-> DOMAIN patterns, visited |-> seen,
     ignored |-> is_ignored(path, patterns), skip |-> skip]

\* lines 125-138: the files of one directory
RECURSIVE TreeAddFiles(_, _, _)
TreeAddFiles(t, dir, names) ==
    IF names = <<>> THEN t
    ELSE LET file_path == dir \o <<Head(names)>>
         IN  TreeAddFiles(IF tree_skip_conditions(Head(names), file_path) THEN t
                          ELSE TreeInsert(t, file_path),
                          dir, Tail(names))

\* the keys of the dict reached by `prefix`, in insertion order
Items(t, prefix) ==
    SelectSeq(t, LAMBDA e : Len(e.path) = Len(prefix) + 1 /\ IsPrefix(prefix, e.path))

RECURSIVE format_tree(_, _, _)
RECURSIVE FormatItems(_, _, _)
\* format_tree(tree, indent) on the dict reached by `prefix`: one line per key,
\* with the lines of its dict after it for a key that holds a dict
format_tree(t, prefix, indent) == FormatItems(t, Items(t, prefix), indent)
FormatItems(t, items, indent) ==
    IF items = <<>> THEN <<>>
    ELSE LET e == Head(items)
         IN  <<Piece(IF e.leaf THEN "leaf" ELSE "dir/", e.path, indent, NoContent)>>
             \o (IF e.leaf THEN <<>> ELSE format_tree(t, e.path, indent + 1))
             \o FormatItems(t, Tail(items), indent)

\* lines 147 and 150: "|   " * indent + "|-- " + str(key), and "/" for a dict
TreeLineText(p) ==
    Repeat(<<VERT, " ", " ", " ">>, p.indent) \o <<TEE, DASH, DASH, " ">>
    \o p.path[Len(p.path)] \o (IF p.k = "dir/" THEN <<"/">> ELSE <<>>)

\* a variant that descends into hidden directories
PrunedNothing(dir) ==
    [i \in 1..Len(listing[dir].dirs) |-> dir \o <<listing[dir].dirs[i]>>]
\* dirs[:] = [d for d in dirs if not d.startswith(".")], as paths
Pruned(dir) ==
    LET kept == SelectSeq(listing[dir].dirs, LAMBDA n : ~StartsWith(n, <<".">>))
    IN  [i \in 1..Len(kept) |-> dir \o <<kept[i]>>]

-----------------------------------------------------------------------------
(* dump_repository_structure_and_files: the file walk. *)

\* a variant whose deny-list test sits inside the override's conjunction
walk_skip_conditions_deny_overridden(file_name, file_path) ==
    ~include_ignored
    /\ (\/ StartsWith(file_name, <<".">>)
        \/ is_ignored(file_path, patterns)
        \/ file_name \in ignore_files)
\* lines 205-208
walk_skip_conditions(file_name, file_path) ==
    \/ (~include_ignored
        /\ (StartsWith(file_name, <<".">>) \/ is_ignored(file_path, patterns)))
    \/ file_name \in ignore_files

\* a variant that takes every directory with a rule file for a related root
RelatedRootsEveryRuleFile(roots, found, has, dir) ==
    IF has THEN Append(roots, dir) ELSE roots
\* lines 197-198: a rule file found after the first one marks a related root
RelatedRoots(roots, found, has, dir) ==
    IF found /\ has THEN Append(roots, dir) ELSE roots

\* lines 212-215
in_related_repo(file_path, roots) ==
    \E i \in 1..Len(roots) : IsRelativeTo(file_path, roots[i])

\* lines 219-234: the content stored for a file that is not skipped.  The
\* digest is computed inside the try: an exception that leaves it is caught
\* by line 233 like a failure to open or read.
StoredContent(file_path, related) ==
    IF file_path \in unreadable THEN ReadError(file_path, PermissionDenied(file_path))
    ELSE IF Suffix(FileName(file_path)) = DOT_PY /\ related
    THEN LET src == ast_parse(file_text[file_path])
         IN  IF DigestRaises(src) THEN ReadError(file_path, src.error)
             ELSE Content("digest", Lit(extract_function_defs_and_docstrings(src)))
    ELSE IF Suffix(FileName(file_path)) # DOT_PY THEN ReadTruncated(file_path)
    ELSE ReadAll(file_path)

\* lines 203-234: the files of one directory, added to file_contents
RECURSIVE WalkFiles(_, _, _, _)
WalkFiles(fc, dir, names, roots) ==
    IF names = <<>> THEN fc
    ELSE LET file_path == dir \o <<Head(names)>>
             related == in_related_repo(file_path, roots)
         IN  WalkFiles(IF walk_skip_conditions(Head(names), file_path) THEN fc
                       ELSE IF no_nest /\ related THEN fc
                       ELSE Append(fc, FileBlock(file_path, StoredContent(file_path, related))),
                       dir, Tail(names), roots)

\* a variant without the is_relative_to test of lines 183-184
EntryVerdictNoRootCheck(e) ==
    IF ~e.exists THEN "FileNotFoundError"
    ELSE IF e.name \in unreadable THEN "PermissionError"
    ELSE "ok"
\* lines 183-186 and the open() of line 187 for one --filename entry: the
\* exception raised, or "ok"
EntryVerdict(e) ==
    IF ~e.inside THEN "ValueError"
    ELSE IF ~e.exists THEN "FileNotFoundError"
    ELSE IF e.name \in unreadable THEN "PermissionError"
    ELSE "ok"

-----------------------------------------------------------------------------
(* The actions of one run. *)

AfterTree == IF filenames # <<>> THEN "list" ELSE "walk"

\* lines 163-177 and 119-121: load the rule files, start `output`
Begin ==
    /\ pc = "load"
    /\ IF LoadRaises(Root)
       THEN /\ raised' = "PermissionError"
            /\ pc' = "done"
            /\ UNCHANGED <<patterns, todo, tree, output>>
       ELSE /\ patterns' = load_gitignore_patterns(Root)
            /\ raised' = raised
            /\ IF include_tree
               THEN /\ tree' = <<TreeEntry(<<base_path_name>>, FALSE)>>
                    /\ output' = <<OutPrompt>>
                    /\ todo' = <<Root>>
                    /\ pc' = "tree"
               ELSE /\ tree' = tree
                    /\ output' = <<OutPrompt, OutFiles>>
                    /\ todo' = IF filenames # <<>> THEN filenames ELSE <<Root>>
                    /\ pc' = AfterTree
    /\ UNCHANGED <<visited, main_gitignore_found, related_repo_roots, file_contents,
                   returned, tests>>
    /\ UNCHANGED <<fsVars, argVars, mainVars, digestVars>>

\* lines 123-138: one directory of build_tree_structure's walk
TreeStep ==
    /\ pc = "tree" /\ todo # <<>>
    /\ LET dir == Head(todo)
           names == listing[dir].files
       IN  /\ visited' = visited \cup {dir}
           /\ tree' = TreeAddFiles(tree, dir, names)
           /\ tests' = tests \cup
                {Test("tree", dir \o <<n>>, visited',
                      tree_skip_conditions(n, dir \o <<n>>)) : n \in Range(names)}
           /\ todo' = Pruned(dir) \o Tail(todo)
    /\ UNCHANGED <<pc, patterns, main_gitignore_found, related_repo_roots,
                   file_contents, output, raised, returned>>
    /\ UNCHANGED <<fsVars, argVars, mainVars, digestVars>>

\* lines 139 and 172-175: the tree is rendered into `output`
TreeDone ==
    /\ pc = "tree" /\ todo = <<>>
    /\ output' = output \o <<OutStructure>> \o format_tree(tree, <<>>, 0)
                        \o <<OutStructureEnd>>
    /\ pc' = AfterTree
    /\ todo' = IF filenames # <<>> THEN filenames ELSE <<Root>>
    /\ visited' = {}
    /\ UNCHANGED <<patterns, tree, main_gitignore_found, related_repo_roots,
                   file_contents, raised, returned, tests>>
    /\ UNCHANGED <<fsVars, argVars, mainVars, digestVars>>

\* lines 180-190: one entry of the explicit list
ListStep ==
    /\ pc = "list" /\ todo # <<>>
    /\ LET e == Head(todo)
           verdict == EntryVerdict(e)
       IN  IF verdict # "ok"
           THEN /\ raised' = verdict
                /\ pc' = "done"
                /\ UNCHANGED <<todo, output>>
           ELSE /\ output' = Append(output, FileBlock(e.name, ReadAll(e.name)))
                /\ todo' = Tail(todo)
                /\ pc' = IF Tail(todo) = <<>> THEN "finish" ELSE "list"
                /\ raised' = raised
    /\ UNCHANGED <<patterns, visited, tree, main_gitignore_found, related_repo_roots,
                   file_contents, returned, tests>>
    /\ UNCHANGED <<fsVars, argVars, mainVars, digestVars>>

\* lines 194-234: one directory of the file walk
WalkStep ==
    /\ pc = "walk" /\ todo # <<>>
    /\ LET dir == Head(todo)
           names == listing[dir].files
           has == GITIGNORE \in Range(names)
           roots == RelatedRoots(related_repo_roots, main_gitignore_found, has, dir)
       IN  /\ related_repo_roots' = roots
           /\ main_gitignore_found' = (main_gitignore_found \/ has)
           /\ visited' = visited \cup {dir}
           /\ file_contents' = WalkFiles(file_contents, dir, names, roots)
           /\ tests' = tests \cup
                {Test("files", dir \o <<n>>, visited',
                      walk_skip_conditions(n, dir \o <<n>>)) : n \in Range(names)}
           /\ todo' = Pruned(dir) \o Tail(todo)
           /\ pc' = IF todo' = <<>> THEN "finish" ELSE "walk"
    /\ UNCHANGED <<patterns, tree, output, raised, returned>>
    /\ UNCHANGED <<fsVars, argVars, mainVars, digestVars>>

\* lines 236-244: the blocks of file_contents, the closing lines, the return
Finish ==
    /\ pc = "finish"
    /\ output' = output \o file_contents \o <<OutFilesEnd, OutInputEnd, OutTask>>
    /\ returned' = Returned(output')
    /\ pc' = "done"
    /\ UNCHANGED <<patterns, todo, visited, tree, main_gitignore_found,
                   related_repo_roots, file_contents, raised, tests>>
    /\ UNCHANGED <<fsVars, argVars, mainVars, digestVars>>

-----------------------------------------------------------------------------
(* Initial states. *)

RunStart ==
    /\ pc = "load" /\ patterns = <<>> /\ todo = <<>> /\ visited = {}
    /\ tree = <<>> /\ main_gitignore_found = FALSE /\ related_repo_roots = <<>>
    /\ file_contents = <<>> /\ output = <<>> /\ raised = "none"
    /\ returned = NotReturned /\ tests = {}

\* the output file: base_path / name (the default is base_path / "context.txt"),
\* a path outside base_path, or a path in a directory that does not exist
OutputInside(name) == [where |-> "inside", name |-> name]
OutputOutside == [where |-> "outside", name |-> CONTEXT_TXT]
OutputNoDirectory == [where |-> "no directory", name |-> CONTEXT_TXT]

MainIdle ==
    /\ users_request = <<>> /\ output_file = OutputOutside /\ safe_request = <<>>
    /\ context = <<>> /\ mpc = "idle" /\ runs = 0
DigestIdle ==
    source = Parsed(<<>>) /\ result = <<>> /\ pending = <<>> /\ digest = <<>> /\ dpc = "idle"

\* a walk over the large tree
InitWalk ==
    \E rootRules \in {Absent, RulesTxt, RulesVendorDir, RulesClass},
       vendorRules \in {Absent, RulesNone, RulesPy},
       libRules \in {Absent, RulesNone},
       libFirst \in BOOLEAN :
        /\ listing = FullListing(rootRules, vendorRules, libRules, libFirst)
        /\ \E n \in {300, 700} :
              file_text = FileTexts(RuleTexts(rootRules, vendorRules, libRules, RulesAll),
                                    TextLines(n))
        /\ unreadable \in {{}, {<<N_TXT>>}, {<<VENDOR, B_PY>>}}
                          \cup {{<<GITIGNORE>>} : x \in {rootRules} \ {Absent}}
        /\ no_nest \in BOOLEAN /\ include_ignored \in BOOLEAN /\ include_tree \in BOOLEAN
        /\ ignore_files \in {{}, {B_PY}}
        /\ filenames = <<>>

\* a walk over the two-file tree of the a.py / vendor/b.py scenario
InitScenario ==
    \E rootRules \in {Absent, RulesNone}, vendorRules \in {RulesNone, RulesPy} :
        /\ listing = ScenarioListing(rootRules, <<>>)
        /\ file_text = FileTexts(RuleTexts(rootRules, vendorRules, Absent, Absent),
                                 TextLines(1))
        /\ unreadable \in {{}, {<<VENDOR, B_PY>>}}
        /\ no_nest \in BOOLEAN /\ include_ignored \in BOOLEAN /\ include_tree \in BOOLEAN
        /\ ignore_files = {}
        /\ filenames = <<>>

\* an explicit list of files; the file the entry ../a.py names exists next to
\* the root
InitList ==
    /\ listing = FullListing(RulesTxt, RulesNone, Absent, FALSE)
    /\ file_text = FileTexts(RuleTexts(RulesTxt, RulesNone, Absent, RulesAll),
                             TextLines(300))
                   @@ (EntryOutside.name :> TextA)
    /\ unreadable \in {{}, {<<A_PY>>}, {<<GITIGNORE>>}}
    /\ no_nest = FALSE /\ include_ignored \in BOOLEAN /\ include_tree \in BOOLEAN
    /\ ignore_files \in {{}, {A_PY}}
    /\ filenames \in SeqsUpTo(Entries, MaxList) \ {<<>>}

Init ==
    /\ InitWalk \/ InitScenario \/ InitList
    /\ RunStart /\ MainIdle /\ DigestIdle

Next == Begin \/ TreeStep \/ TreeDone \/ ListStep \/ WalkStep \/ Finish

Spec == Init /\ [][Next]_vars

-----------------------------------------------------------------------------
(* main(): the caller's task text is put into the returned document, and    *)
(* the document is saved.                                                   *)

TASK_OPEN == <<"<", "t", "a", "s", "k", ">">>
TASK_CLOSE == <<"<", "/", "t", "a", "s", "k", ">">>
\* "<task>\n\n</task>"
TASK_EMPTY == TASK_OPEN \o <<"\n", "\n">> \o TASK_CLOSE

\* s.find(old, from): where the first occurrence of `old` at or after `from`
\* starts, 0 for none
Find(s, old, from) ==
    LET hits == {i \in from..(Len(s) - Len(old) + 1) :
                    s[i] = old[1] /\ SubSeq(s, i, i + Len(old) - 1) = old}
    IN  IF hits = {} THEN 0 ELSE CHOOSE i \in hits : \A j \in hits : i <= j

RECURSIVE ReplaceFrom(_, _, _, _)
ReplaceFrom(s, old, new, from) ==
    LET i == Find(s, old, from)
    IN  IF i = 0 THEN SubSeq(s, from, Len(s))
        ELSE SubSeq(s, from, i - 1) \o new \o ReplaceFrom(s, old, new, i + Len(old))

\* str.replace(old, new) for a non-empty `old`: the occurrences of `old`
\* found scanning left to right, each search starting after the previous
\* occurrence
Replace(s, old, new) == ReplaceFrom(s, old, new, 1)

\* `old in s`
Contains(s, old) == Find(s, old, 1) # 0

\* Text mode with newline=None: a read gives "\r\n" and "\r" as "\n" (a write
\* on POSIX leaves the text as it is).
UniversalNewlines(s) == Replace(Replace(s, <<"\r", "\n">>, <<"\n">>), <<"\r">>, <<"\n">>)

\* the text of one element of `output`
PieceText(p) ==
    IF p.k \in {"leaf", "dir/"} THEN TreeLineText(p)
    ELSE IF p.k = "File"
    THEN <<"\n", "F", "i", "l", "e", ":", " ">> \o FilePathStr(p.path) \o <<"\n">> \o Chars(p.content.text)
    ELSE Chars(p.content.text)

\* line 244: "\n".join(output)
JoinPieces(ps) == Join([i \in 1..Len(ps) |-> PieceText(ps[i])], <<"\n">>)

\* line 313: args.users_request.replace("</task>", "")
SafeRequest(request) == Replace(request, TASK_CLOSE, <<>>)

\* lines 303-310: the call returned the document, or its exception ends main()
MainCall ==
    /\ mpc = "call" /\ pc = "done"
    /\ IF returned.given
       THEN context' = JoinPieces(returned.text) /\ mpc' = "sanitize" /\ runs' = runs
       ELSE context' = context /\ mpc' = "raised" /\ runs' = runs + 1
    /\ UNCHANGED <<users_request, output_file, safe_request>>
    /\ UNCHANGED <<fsVars, argVars, runVars, digestVars>>

\* line 313
MainSanitize ==
    /\ mpc = "sanitize"
    /\ safe_request' = SafeRequest(users_request)
    /\ mpc' = "insert"
    /\ UNCHANGED <<users_request, output_file, context, runs>>
    /\ UNCHANGED <<fsVars, argVars, runVars, digestVars>>

\* lines 314-317: every occurrence of the empty marker in the document
MainInsert ==
    /\ mpc = "insert"
    /\ context' = Replace(context, TASK_EMPTY,
                          TASK_OPEN \o <<"\n">> \o safe_request \o <<"\n">> \o TASK_CLOSE)
    /\ mpc' = "save"
    /\ UNCHANGED <<users_request, output_file, safe_request, runs>>
    /\ UNCHANGED <<fsVars, argVars, runVars, digestVars>>

\* the directory lists one more file, at any place of the listing's order
WithFile(files, name, k) == SubSeq(files, 1, k) \o <<name>> \o SubSeq(files, k + 1, Len(files))

\* lines 319-320: open(output_file, "w") and write.  A file under base_path
\* is created or overwritten there; open() raises when the directory of the
\* path does not exist.
MainSave ==
    /\ mpc = "save"
    /\ IF output_file.where = "inside"
       THEN LET f == <<output_file.name>>
            IN  /\ \E k \in 0..Len(listing[Root].files) :
                      listing' =
                        IF f \in AllFiles THEN listing
                        ELSE [listing EXCEPT
                                ![Root].files = WithFile(@, output_file.name, k)]
                /\ file_text' = [g \in DOMAIN file_text \cup {f} |->
                                    IF g = f THEN Lit(UniversalNewlines(context))
                                    ELSE file_text[g]]
                /\ mpc' = "done"
       ELSE /\ UNCHANGED <<listing, file_text>>
            /\ mpc' = IF output_file.where = "outside" THEN "done" ELSE "raised"
    /\ runs' = runs + 1
    /\ UNCHANGED <<unreadable, users_request, output_file, safe_request, context>>
    /\ UNCHANGED <<argVars, runVars, digestVars>>

\* the same command is run again on the directory
MainAgain ==
    /\ mpc = "done" /\ runs < MaxRuns
    /\ pc' = "load" /\ patterns' = <<>> /\ todo' = <<>> /\ visited' = {}
    /\ tree' = <<>> /\ main_gitignore_found' = FALSE /\ related_repo_roots' = <<>>
    /\ file_contents' = <<>> /\ output' = <<>> /\ raised' = "none"
    /\ returned' = NotReturned /\ tests' = {}
    /\ safe_request' = <<>> /\ context' = <<>> /\ mpc' = "call"
    /\ UNCHANGED <<users_request, output_file, runs>>
    /\ UNCHANGED <<fsVars, argVars, digestVars>>

\* the fragments a task text is put together from
Fragments == {TASK_CLOSE, <<"<", "/", "t", "a">>, <<"s", "k", ">">>, <<"f", "i", "x">>, TASK_OPEN \o <<"\n">>, <<"\r">>}

TaskTexts == {Flatten(fs) : fs \in SeqsUpTo(Fragments, MaxPieces)}

InitTask ==
    /\ \E more \in {<<>>, <<N_TXT>>} : listing = ScenarioListing(RulesNone, more)
    /\ file_text = FileTexts(RuleTexts(RulesNone, RulesNone, Absent, Absent), TextMarker)
    /\ unreadable \in {{}, {<<GITIGNORE>>}}
    /\ no_nest = FALSE /\ include_ignored = FALSE /\ include_tree = TRUE
    /\ ignore_files = {} /\ filenames = <<>>
    /\ RunStart /\ DigestIdle
    /\ users_request \in TaskTexts
    /\ output_file \in {OutputInside(CONTEXT_TXT), OutputInside(A_PY), OutputOutside,
                       OutputNoDirectory}
    /\ safe_request = <<>> /\ context = <<>> /\ mpc = "call" /\ runs = 0

NextTask ==
    Begin \/ TreeStep \/ TreeDone \/ WalkStep \/ Finish
    \/ MainCall \/ MainSanitize \/ MainInsert \/ MainSave \/ MainAgain

SpecTask == InitTask /\ [][NextTask]_vars

-----------------------------------------------------------------------------
(* extract_function_defs_and_docstrings, statement by statement. *)

\* line 71: ast.parse returns, raises SyntaxError (lines 112-113), or raises
\* an exception that leaves the function
DigestParse ==
    /\ dpc = "parse"
    /\ IF source.parses
       THEN pending' = source.body /\ result' = <<>> /\ dpc' = "nodes"
       ELSE IF DigestRaises(source)
       THEN pending' = <<>> /\ result' = <<>> /\ dpc' = "raised"
       ELSE pending' = <<>> /\ result' = <<SyntaxErrorLine(source)>> /\ dpc' = "join"
    /\ UNCHANGED <<source, digest>>
    /\ UNCHANGED <<fsVars, argVars, runVars, mainVars>>

\* lines 109-110: process_node on the next statement of the module
DigestNode ==
    /\ dpc = "nodes" /\ pending # <<>>
    /\ result' = result \o process_node(Head(pending), 0)
    /\ pending' = Tail(pending)
    /\ UNCHANGED <<source, digest, dpc>>
    /\ UNCHANGED <<fsVars, argVars, runVars, mainVars>>

\* line 114
DigestJoin ==
    /\ \/ dpc = "join"
       \/ dpc = "nodes" /\ pending = <<>>
    /\ digest' = Join([i \in 1..Len(result) |-> Render(result[i])], <<"\n">>)
    /\ dpc' = "done"
    /\ UNCHANGED <<source, result, pending>>
    /\ UNCHANGED <<fsVars, argVars, runVars, mainVars>>

\* the statements tried
DefF == FunctionDef(<<"f">>, <<<<"x">>, <<"y">>>>, <<>>, <<Pass>>)
DefG == FunctionDef(<<"g">>, <<<<"s", "e", "l", "f">>>>, <<"d">>, <<Pass>>)
DefOuter == FunctionDef(<<"o", "u", "t", "e", "r">>, <<>>, <<>>, <<DefF>>)
DefAsync == AsyncFunctionDef(<<"h">>, <<>>, <<>>)
FieldX == Assign(<<<<"x">>>>)
FieldY == AnnAssign(<<"y">>, <<"i", "n", "t">>, FALSE)
FieldZ == AnnAssign(<<"z">>, <<"i", "n", "t">>, TRUE)
Inner == ClassDef(<<"I">>, <<>>, <<>>, <<FieldX, DefG>>)
Members == {DefG, FieldX, FieldY, FieldZ, Inner}
Classes == {ClassDef(<<"C">>, <<<<"B", "a", "s", "e">>>>, <<"d", "o", "c">>, b) : b \in SeqsUpTo(Members, MaxBody)}
Statements == {DefF, DefOuter, DefAsync, FieldX} \cup Classes
Sources ==
    {Parsed(<<>>), SourceC, SourceD}
    \cup {Parsed(<<t>>) : t \in Statements}
    \cup {Parsed(<<t, u>>) : t \in Statements, u \in {DefG, FieldY}}

InitDigest ==
    /\ listing = ScenarioListing(RulesNone, <<>>)
    /\ file_text = FileTexts(RuleTexts(RulesNone, RulesNone, Absent, Absent), TextLines(1))
    /\ unreadable = {}
    /\ no_nest = FALSE /\ include_ignored = FALSE /\ include_tree = TRUE
    /\ ignore_files = {} /\ filenames = <<>>
    /\ pc = "idle" /\ patterns = <<>> /\ todo = <<>> /\ visited = {}
    /\ tree = <<>> /\ main_gitignore_found = FALSE /\ related_repo_roots = <<>>
    /\ file_contents = <<>> /\ output = <<>> /\ raised = "none"
    /\ returned = NotReturned /\ tests = {}
    /\ MainIdle
    /\ source \in Sources
    /\ result = <<>> /\ pending = <<>> /\ digest = <<>> /\ dpc = "parse"

NextDigest == DigestParse \/ DigestNode \/ DigestJoin

SpecDigest == InitDigest /\ [][NextDigest]_vars

-----------------------------------------------------------------------------
(* What the claims speak of. *)

\* the run returned its document
Completed == pc = "done" /\ returned.given
WalkMode == filenames = <<>>

\* the File: blocks of the returned document
BlockPieces == {p \in Range(returned.text) : p.k = "File"}
Blocks == {p.path : p \in BlockPieces}
BlockContent(f) == (CHOOSE p \in BlockPieces : p.path = f).content

\* the lines of the tree rendering that `output` holds
TreeLines == SelectSeq(output, LAMBDA p : p.k \in {"leaf", "dir/"})
TreeRendered == \E p \in Range(output) : p.k = "</repository_structure>"
TreeLinePaths == {p.path : p \in Range(TreeLines)}
TreeLeaves ==
    {RelativeTo(p.path, <<base_path_name>>) : p \in {q \in Range(TreeLines) : q.k = "leaf"}}

\* a directory whose name starts with "." lies on the way to the entry
UnderHidden(path) == \E i \in 1..(Len(path) - 1) : StartsWith(path[i], <<".">>)

\* the directories that declare a rule set, anywhere below the root
RuleDirs == {d \in AllDirs : HasGitignore(d)}

\* the rule set declared in directory d has a pattern that matches file f
MatchedBy(f, d) ==
    /\ IsPrefix(d, DirOf(f))
    /\ \E pat \in Range(KeptLines(gitignore_lines(d))) : PatternHits(RelativeTo(f, d), pat)

\* the exclusion condition of the claims, from the file system and the options
Excluded(f) ==
    \/ (~include_ignored
        /\ (StartsWith(FileName(f), <<".">>) \/ \E d \in RuleDirs : MatchedBy(f, d)))
    \/ FileName(f) \in ignore_files

\* the file lies under a root the walk classified as related
Related(f) == in_related_repo(f, related_repo_roots)

\* the number of lines of a text
LineCount(chars) ==
    Newlines(chars) + (IF chars # <<>> /\ chars[Len(chars)] # "\n" THEN 1 ELSE 0)

Min(a, b) == IF a < b THEN a ELSE b

\* `part` is the first n lines of `whole`, unchanged, or all of it when it
\* has fewer
IsFirstLines(part, whole, n) ==
    /\ IsPrefix(part, whole)
    /\ LineCount(part) = Min(LineCount(whole), n)
    /\ part = whole \/ EndsWith(part, <<"\n">>)

\* the digest of a file's text
DigestOf(f) == extract_function_defs_and_docstrings(ast_parse(file_text[f]))

\* the block of file f holds the content the policy names for it
FollowsPolicy(f) ==
    IF Suffix(FileName(f)) = DOT_PY /\ Related(f)
    THEN BlockContent(f) = Content("digest", Lit(DigestOf(f)))
    ELSE IF Suffix(FileName(f)) # DOT_PY
    THEN /\ BlockContent(f).kind = "raw"
         /\ IsFirstLines(Chars(BlockContent(f).text), Chars(file_text[f]), TruncateLimit)
    ELSE BlockContent(f) = Content("raw", file_text[f])

\* the read of file f, or the computation of its digest, raises
Fails(f) ==
    \/ f \in unreadable
    \/ /\ Suffix(FileName(f)) = DOT_PY /\ Related(f)
       /\ DigestRaises(ast_parse(file_text[f]))

\* the placeholder of file f
IsPlaceholder(content, f) ==
    /\ content.kind = "error"
    /\ StartsWith(Chars(content.text), <<"E", "r", "r", "o", "r", " ", "r", "e", "a",
      "d", "i", "n", "g", " ">> \o FilePathStr(f) \o <<":",
      " ">>)

-----------------------------------------------------------------------------
(* C1 *)

\* C1 as stated: in walk mode the content of every surviving file is the one
\* its classification and extension fix: the digest for a related .py file,
\* the first min(n, 500) lines for a file that is not .py, the full text for
\* a .py file under no related root.
C1_EveryFile ==
    (Completed /\ WalkMode) => \A f \in Blocks : FollowsPolicy(f)

\* C1 amended: the same for every surviving file whose read, and whose digest
\* when it is a related .py file, raises no exception; a file for which one
\* of them raises gets the placeholder instead.
C1_ContentPolicy ==
    (Completed /\ WalkMode) =>
        \A f \in Blocks :
            IF Fails(f) THEN IsPlaceholder(BlockContent(f), f) ELSE FollowsPolicy(f)

\* a completed walk with a 700-line text file cut to 500 lines, a related .py
\* file digested, a primary .py file in full, and a related .py file whose
\* digest raises held as the placeholder
C1_Witness ==
    /\ Completed /\ WalkMode /\ unreadable = {}
    /\ <<N_TXT>> \in Blocks /\ LineCount(Chars(file_text[<<N_TXT>>])) = 700
    /\ LineCount(Chars(BlockContent(<<N_TXT>>).text)) = 500
    /\ <<VENDOR, B_PY>> \in Blocks /\ BlockContent(<<VENDOR, B_PY>>).kind = "digest"
    /\ <<A_PY>> \in Blocks /\ BlockContent(<<A_PY>>) = Content("raw", TextA)
    /\ <<VENDOR, D_PY>> \in Blocks /\ BlockContent(<<VENDOR, D_PY>>).kind = "error"

-----------------------------------------------------------------------------
(* C2 *)

\* the scenario: a.py in the root, vendor/ with a rule file that matches
\* nothing and b.py, default options, every file readable
Scenario(rootRules) ==
    /\ listing = ScenarioListing(rootRules, <<>>)
    /\ file_text[<<VENDOR, GITIGNORE>>] = RulesNone
    /\ ~no_nest /\ ~include_ignored /\ unreadable = {}
    /\ Completed

DigestB == <<"c", "l", "a", "s", "s", " ", "C", "(", "B", "a", "s", "e", ")", ":",
      "\n", " ", " ", " ", " ", "\"", "\"", "\"", "d", "o", "c", "\"", "\"", "\"",
      "\n", " ", " ", " ", " ", "d", "e", "f", " ", "g", "(", "s", "e", "l", "f",
      ")", ":">>

\* C2 as stated: the root holds only a.py and vendor/ (with its rule file and
\* b.py); a.py appears in full and b.py as the digest.
C2_AsStated ==
    Scenario(Absent) =>
        /\ <<A_PY>> \in Blocks /\ BlockContent(<<A_PY>>) = Content("raw", TextA)
        /\ <<VENDOR, B_PY>> \in Blocks
        /\ BlockContent(<<VENDOR, B_PY>>) = Content("digest", Lit(DigestB))

\* C2 amended: a.py appears in full; b.py appears as the digest when the root
\* holds a rule file of its own, and in full when it holds none (vendor/'s
\* rule file is then the first one found and vendor/ is not a related tree).
C2_Scenario ==
    \A rootRules \in {Absent, RulesNone} :
        Scenario(rootRules) =>
            /\ <<A_PY>> \in Blocks /\ BlockContent(<<A_PY>>) = Content("raw", TextA)
            /\ <<VENDOR, B_PY>> \in Blocks
            /\ BlockContent(<<VENDOR, B_PY>>) =
                 IF rootRules = Absent THEN Content("raw", TextB)
                 ELSE Content("digest", Lit(DigestB))

\* the scenario with a rule file in the root, ended with b.py digested
C2_Witness ==
    /\ Scenario(RulesNone)
    /\ related_repo_roots = << <<VENDOR>> >>
    /\ BlockContent(<<VENDOR, B_PY>>) = Content("digest", Lit(DigestB))

-----------------------------------------------------------------------------
(* C3 *)

\* C3 as stated: a file is absent from the output, tree and blocks, exactly
\* when the exclusion condition holds for it.
C3_AsStated ==
    Completed =>
        \A f \in AllFiles : (f \notin Blocks /\ f \notin TreeLeaves) <=> Excluded(f)

\* the files an explicit list names
Listed == {filenames[i].name : i \in 1..Len(filenames)}

\* C3 amended: a file beneath a hidden directory never has a tree line, and
\* never has a block in walk mode; any other file has a tree line exactly
\* when the tree is rendered and the exclusion condition is false, and in
\* walk mode a block exactly when the condition is false and it is not
\* dropped as a related file under skip-related; with an explicit list the
\* blocks are the listed files, whatever the condition, the deny-list and
\* hidden directories say.
C3_Exclusion ==
    Completed =>
        \A f \in AllFiles :
            /\ f \in TreeLeaves <=> (include_tree /\ ~UnderHidden(f) /\ ~Excluded(f))
            /\ WalkMode =>
                 (f \in Blocks <=>
                    (~UnderHidden(f) /\ ~Excluded(f) /\ ~(no_nest /\ Related(f))))
            /\ ~WalkMode => (f \in Blocks <=> f \in Listed)

\* a completed walk with the override on and b.py on the deny-list: b.py and
\* the file of the hidden directory are in neither part, a.py and the hidden
\* rule file are in both
C3_Witness ==
    /\ Completed /\ WalkMode /\ include_ignored /\ include_tree
    /\ B_PY \in ignore_files
    /\ <<VENDOR, B_PY>> \notin Blocks \cup TreeLeaves
    /\ <<HID, H_PY>> \in AllFiles /\ <<HID, H_PY>> \notin Blocks \cup TreeLeaves
    /\ {<<A_PY>>, <<GITIGNORE>>} \subseteq Blocks \cap TreeLeaves

-----------------------------------------------------------------------------
(* C4 *)

\* the rule sets the walk has come across when it tests a path: those of the
\* directories it has yielded so far
DiscoveredAt(t) == {d \in t.visited : HasGitignore(d)}

\* C4: at every test of a path P the rule sets consulted are those
\* discovered by the walk so far; P is excluded by a matching rule set that
\* was discovered before, and is not excluded when none was.
C4_AsStated ==
    \A t \in tests :
        /\ t.known = DiscoveredAt(t)
        /\ (\E d \in DiscoveredAt(t) : MatchedBy(t.path, d)) => t.ignored
        /\ (\A d \in RuleDirs : MatchedBy(t.path, d) => d \notin DiscoveredAt(t))
              => ~t.ignored

-----------------------------------------------------------------------------
(* C5 *)

BadEntry(e) == ~e.exists \/ ~e.inside

\* C5: with an explicit list that holds, at any position, an entry that is
\* missing or outside the root, the run ends in an exception and nothing is
\* returned, the blocks of earlier entries included; the exception is the
\* configuration error (ValueError, FileNotFoundError) unless an open failed
\* before the entry was reached.
C5_BadEntryIsFatal ==
    (pc = "done" /\ \E i \in 1..Len(filenames) : BadEntry(filenames[i])) =>
        /\ raised # "none"
        /\ returned = NotReturned
        /\ unreadable = {} => raised \in {"ValueError", "FileNotFoundError"}

\* the list [a.py, README.md]: a.py's block was appended, README.md is
\* missing, the run ended in FileNotFoundError with nothing returned
C5_Witness ==
    /\ pc = "done" /\ filenames = <<EntryA, EntryMissing>>
    /\ \E p \in Range(output) : p.k = "File" /\ p.path = <<A_PY>>
    /\ raised = "FileNotFoundError" /\ returned = NotReturned

-----------------------------------------------------------------------------
(* C6 *)

\* C6: a read failure never ends the run: unless an explicit entry is missing
\* or outside the root, the run returns its document, and every unreadable
\* file that has a block has the placeholder as its content.
C6_ReadFailureNeverAborts ==
    (pc = "done" /\ \A i \in 1..Len(filenames) : ~BadEntry(filenames[i])) =>
        /\ raised = "none" /\ returned.given
        /\ \A f \in Blocks \cap unreadable : IsPlaceholder(BlockContent(f), f)

-----------------------------------------------------------------------------
(* C8 *)

\* the entries, files and directories, reached from the root without passing
\* through, or being, a directory whose name starts with "."
Reachable ==
    {d \in AllDirs : \A i \in 1..Len(d) : ~StartsWith(d[i], <<".">>)}
    \cup {f \in AllFiles : ~UnderHidden(f)}

OneLineEach(entries) ==
    /\ TreeLinePaths = {<<base_path_name>> \o e : e \in entries}
    /\ Len(TreeLines) = Cardinality(entries)

\* C8 as stated: the rendering has exactly one line for every entry reachable
\* without passing through a hidden directory, and none for a hidden directory
\* or a descendant of one.
C8_AsStated == TreeRendered => OneLineEach(Reachable)

\* the files that get a leaf, and the directories that get a line
Surviving == {f \in AllFiles : ~UnderHidden(f) /\ ~Excluded(f)}
Shown == {Root} \cup Surviving \cup {d \in AllDirs : \E f \in Surviving : IsPrefix(d, f)}

\* C8 amended: the rendering has exactly one line for the root, for every
\* file that is neither excluded nor beneath a hidden directory, and for every
\* directory that holds such a file at any depth; it has no line for any
\* other entry: none for an excluded file, for a directory without a
\* surviving file, for a hidden directory or for a descendant of one, whatever
\* the override.
C8_TreeLines ==
    TreeRendered =>
        /\ OneLineEach(Shown)
        /\ \A p \in Range(TreeLines) :
              /\ ~UnderHidden(p.path)
              /\ p.k = "dir/" => ~StartsWith(FileName(p.path), <<".">>)

\* a rendering under the override: lines for vendor/pkg/c.py and the root's
\* rule file, none for the empty docs/, the hidden directory or its file
C8_Witness ==
    /\ TreeRendered /\ include_ignored /\ ignore_files = {}
    /\ {<<base_path_name, VENDOR, PKG, C_PY>>, <<base_path_name, GITIGNORE>>}
          \subseteq TreeLinePaths
    /\ <<DOCS>> \in AllDirs /\ <<base_path_name, DOCS>> \notin TreeLinePaths
    /\ <<base_path_name, HID>> \notin TreeLinePaths
    /\ <<base_path_name, HID, H_PY>> \notin TreeLinePaths

-----------------------------------------------------------------------------
(* C10 *)

\* C10: in walk mode with the tree rendered, the files with a block are the
\* leaves of the tree, less the files under a related root when skip-related
\* is set.
C10_WalksAgree ==
    (Completed /\ WalkMode /\ include_tree) =>
        /\ Blocks = {f \in TreeLeaves : ~(no_nest /\ Related(f))}
        /\ no_nest => \A f \in Blocks : ~Related(f)
        /\ ~no_nest => Blocks = TreeLeaves

\* a completed walk under skip-related: lib/m.txt is a leaf under the related
\* root lib/ and has no block, a.py has both
C10_Witness ==
    /\ Completed /\ WalkMode /\ include_tree /\ no_nest
    /\ \E i \in 1..Len(related_repo_roots) : related_repo_roots[i] = <<LIB>>
    /\ <<LIB, M_TXT>> \in TreeLeaves /\ <<LIB, M_TXT>> \notin Blocks
    /\ <<A_PY>> \in TreeLeaves \cap Blocks

-----------------------------------------------------------------------------
(* C7 *)

\* the document up to its last element, the empty marker that line 242 appends
BeforeMarker ==
    JoinPieces(SubSeq(returned.text, 1, Len(returned.text) - 1)) \o <<"\n", "\n">>

\* what line 316 puts in the place of the empty marker
NewBlock == TASK_OPEN \o <<"\n">> \o safe_request \o <<"\n">> \o TASK_CLOSE

\* The text between the opening "<task>\n" that takes the place of the final
\* marker and the final "\n</task>" of the document.
TaskBlock ==
    SubSeq(context,
           Len(Replace(BeforeMarker, TASK_EMPTY, NewBlock)) + Len(TASK_OPEN) + 2,
           Len(context) - Len(TASK_CLOSE) - 1)

\* C7: the text put between the opening <task> line and the final closing
\* </task> holds no occurrence of "</task>".
C7_NoNestedClose ==
    mpc \in {"save", "done"} => ~Contains(TaskBlock, TASK_CLOSE)

-----------------------------------------------------------------------------
(* C9 *)

RECURSIVE ClaimedNode(_, _, _)
RECURSIVE ClaimedBody(_, _, _)
\* The lines C9 describes, as (indentation, declaration or docstring): one
\* line at its nesting depth for every function, class and class-body field,
\* nested ones included, each docstring on the next line one level deeper.
ClaimedNode(node, depth, inClass) ==
    IF node.type \in {"FunctionDef", "AsyncFunctionDef", "ClassDef"}
    THEN <<[indent |-> depth, of |-> "decl"]>>
         \o (IF node.doc # <<>> THEN <<[indent |-> depth + 1, of |-> "doc"]>> ELSE <<>>)
         \o ClaimedBody(node.body, depth + 1, node.type = "ClassDef")
    ELSE IF node.type \in {"Assign", "AnnAssign"} /\ inClass
    THEN <<[indent |-> depth, of |-> "decl"]>>
    ELSE <<>>
ClaimedBody(body, depth, inClass) ==
    IF body = <<>> THEN <<>>
    ELSE ClaimedNode(Head(body), depth, inClass) \o ClaimedBody(Tail(body), depth, inClass)

\* C9: for a source that parses, the digest holds exactly the lines described,
\* each at four spaces times its nesting depth.
C9_OneLinePerDeclaration ==
    (dpc = "done" /\ source.parses) =>
        [i \in 1..Len(result) |-> [indent |-> result[i].indent, of |-> result[i].of]]
            = ClaimedBody(source.body, 0, FALSE)

====
